---- MODULE Spec2Model ----
(***************************************************************************)
(* Mordex: execution-risk decision pipeline.                               *)
(*                                                                         *)
(* Part 1 models the risk classifier, getAIDecision, with its              *)
(* deterministic helpers calculateRiskAnalysis and getFallbackDecision.    *)
(* Part 2 models the estimate endpoint, POST, with the five cost fetches   *)
(* it joins and the profit figures it derives from them.                   *)
(*                                                                         *)
(* Units.  USD amounts are integers in cents, trade sizes are integers in  *)
(* hundredths of an ETH, spreads are integers in hundredths of a percent   *)
(* and confidences are integers in hundredths.  A ratio a/b is kept as the *)
(* pair <<a, b>> and compared by cross-multiplication, so every threshold  *)
(* comparison is exact.                                                    *)
(***************************************************************************)
EXTENDS Integers, FiniteSets, Sequences, TLC

VARIABLES
    data,           \* the SimulationData argument of getAIDecision
    apiKey,         \* process.env.GEMINI_API_KEY is set
    serviceMode,    \* what the reasoning service does with a call
    state,          \* position of the request in getAIDecision
    response,       \* the response text the awaited call resolved with
    result,         \* the AIDecision the request resolves with
    aiCalls,        \* number of generateContent calls issued
    fallbackCalls,  \* number of getFallbackDecision calls made
    body,           \* the body of the estimate request
    phase,          \* position of the estimate request in POST
    fetches,        \* state of each of the five cost promises
    fetched,        \* the USD figure each fulfilled promise delivered
    reply,          \* the HTTP response of POST
    classifierCalls, \* number of getAIDecision calls made by POST
    call,           \* the cost function or utility called, with its arguments
    outcome,        \* what that call returned or threw
    amountField,    \* amount state of the simulation page
    isConnected,    \* the wallet is connected
    simulating,     \* simulating state of the page
    posted,         \* the amount of the simulation request in flight
    pageResult,     \* result state of the page
    executionStatus, \* executionStatus state of the page
    executionError, \* executionError state of the page
    isExecuting,    \* isPending of useWriteContract
    transactions    \* the executeArb calls handed to the wallet

estimateVars == <<body, phase, fetches, fetched, reply, classifierCalls>>

classifierVars ==
    <<data, apiKey, serviceMode, state, response, result, aiCalls,
      fallbackCalls>>

utilityVars == <<call, outcome>>

pageVars == <<amountField, isConnected, simulating, posted, pageResult,
              executionStatus, executionError, isExecuting, transactions>>

vars == <<data, apiKey, serviceMode, state, response, result, aiCalls,
          fallbackCalls, estimateVars, utilityVars, pageVars>>

(***************************************************************************)
(* Input domains                                                           *)
(***************************************************************************)

\* Largest gas cost drawn for a request, in whole dollars.
MaxGasUsd == 3

\* Number of 0.50 steps of numeric confidence drawn above -0.50.
MaxConfidenceSteps == 4

NetProfitUsdValues == {-100, 0, 150, 200, 1000, 1001}
GasCostUsdValues == {100 * g : g \in 0..MaxGasUsd}
SlippageUsdValues == {0, 101, 250}
FeesUsdValues == {0, 50}
SpreadValues == {20, 500, 501}
LiquidityDepths == {"low", "medium", "high"}
AmountInEthValues == {5, 6, 100}

SimulationData ==
    [spread : SpreadValues,
     gasCostUsd : GasCostUsdValues,
     slippageUsd : SlippageUsdValues,
     feesUsd : FeesUsdValues,
     netProfitUsd : NetProfitUsdValues,
     liquidityDepth : LiquidityDepths,
     amountInEth : AmountInEthValues]

RiskLevels == {"low", "medium", "high"}
ProfitMargins == {"thin", "acceptable", "safe"}
Decisions == {"EXECUTE", "SKIP"}

(***************************************************************************)
(* JavaScript values                                                       *)
(***************************************************************************)

\* A JavaScript number: a finite value or NaN.
Num(v) == [t |-> "number", v |-> v]
NaN == [t |-> "nan", v |-> 0]

\* A property that the object does not have (undefined), for string fields.
Undefined == "undefined"

\* JSON values a response may carry in its confidence field.
JAbsent == [k |-> "absent", n |-> 0, numeric |-> FALSE]
JNull == [k |-> "null", n |-> 0, numeric |-> FALSE]
JNumber(n) == [k |-> "number", n |-> n, numeric |-> TRUE]
JText(numeric, n) == [k |-> "string", n |-> n, numeric |-> numeric]

\* JavaScript truthiness of a JSON value (non-empty strings only).
Truthy(j) ==
    CASE j.k = "absent" -> FALSE
      [] j.k = "null" -> FALSE
      [] j.k = "number" -> j.n # 0
      [] j.k = "string" -> TRUE

\* a || d
OrElse(j, d) == IF Truthy(j) THEN j ELSE JNumber(d)

\* ToNumber, as applied by Math.max and Math.min to their arguments.
ToNumber(j) ==
    CASE j.k = "absent" -> NaN
      [] j.k = "null" -> Num(0)
      [] j.k = "number" -> Num(j.n)
      [] j.k = "string" -> IF j.numeric THEN Num(j.n) ELSE NaN

MathMax(a, b) ==
    IF a.t = "nan" \/ b.t = "nan" THEN NaN
    ELSE IF a.v >= b.v THEN a ELSE b

MathMin(a, b) ==
    IF a.t = "nan" \/ b.t = "nan" THEN NaN
    ELSE IF a.v <= b.v THEN a ELSE b

(***************************************************************************)
(* Deterministic risk scoring                                              *)
(***************************************************************************)

totalCosts(d) == d.gasCostUsd + d.slippageUsd + d.feesUsd

grossProfit(d) == d.netProfitUsd + totalCosts(d)

\* A ratio n/d with d > 0; the constant 1 is <<1, 1>>.
gasCostRatio(d) ==
    IF grossProfit(d) > 0 THEN <<d.gasCostUsd, grossProfit(d)>> ELSE <<1, 1>>

slippageRatio(d) ==
    IF grossProfit(d) > 0 THEN <<d.slippageUsd, grossProfit(d)>> ELSE <<1, 1>>

\* r > a/b, for b > 0
RatioGT(r, a, b) == r[1] * b > a * r[2]

\* (mutant: the $10 bound of the safe margin is inclusive)
calculateRiskAnalysisInclusive(d) ==
    [gasRisk |->
        IF RatioGT(gasCostRatio(d), 5, 10) THEN "high"
        ELSE IF RatioGT(gasCostRatio(d), 3, 10) THEN "medium"
        ELSE "low",
     slippageRisk |->
        IF d.liquidityDepth = "low" /\ d.slippageUsd > 100 THEN "high"
        ELSE IF RatioGT(slippageRatio(d), 25, 100) THEN "medium"
        ELSE "low",
     mevRisk |->
        IF d.amountInEth > 10 /\ d.liquidityDepth = "low" THEN "high"
        ELSE IF d.slippageUsd > 200 /\ d.netProfitUsd < 1000 THEN "medium"
        ELSE "low",
     profitMargin |->
        IF d.netProfitUsd >= 1000 THEN "safe"
        ELSE IF d.netProfitUsd >= 200 THEN "acceptable"
        ELSE "thin"]

calculateRiskAnalysis(d) ==
    [gasRisk |->
        IF RatioGT(gasCostRatio(d), 5, 10) THEN "high"
        ELSE IF RatioGT(gasCostRatio(d), 3, 10) THEN "medium"
        ELSE "low",
     slippageRisk |->
        IF d.liquidityDepth = "low" /\ d.slippageUsd > 100 THEN "high"
        ELSE IF RatioGT(slippageRatio(d), 25, 100) THEN "medium"
        ELSE "low",
     mevRisk |->
        IF d.amountInEth > 10 /\ d.liquidityDepth = "low" THEN "high"
        ELSE IF d.slippageUsd > 200 /\ d.netProfitUsd < 1000 THEN "medium"
        ELSE "low",
     profitMargin |->
        IF d.netProfitUsd > 1000 THEN "safe"
        ELSE IF d.netProfitUsd >= 200 THEN "acceptable"
        ELSE "thin"]

(***************************************************************************)
(* Deterministic fallback                                                  *)
(***************************************************************************)

\* The reason texts of getFallbackDecision; interpolated figures are a
\* function of the data and are left as placeholders.
ReasonRule1 == "Net profit is negative or zero after all costs"
ReasonRule2 == "Gas cost is {pct}% of gross profit - too risky"
ReasonRule3 == "Profit margin too thin relative to execution risks"
ReasonRule4 == "Net profit of ${net} below $2 safety threshold"
ReasonRule5 == "Spread >5% appears anomalous - possible bad data or flash crash"
ReasonRule6 == "Trade size too large for low liquidity pool - high MEV risk"
ReasonExecute == "Net profit ${net} with {margin} margin and manageable risks"

Assessment(decision, reason, confidence, riskAnalysis) ==
    [decision |-> decision, reason |-> reason,
     confidence |-> confidence, riskAnalysis |-> riskAnalysis]

\* Variant: the $2 threshold is tested before the thin-margin rule.
getFallbackDecisionThresholdFirst(d) ==
    LET riskAnalysis == calculateRiskAnalysis(d) IN
    IF d.netProfitUsd <= 0
    THEN Assessment("SKIP", ReasonRule1, Num(95), riskAnalysis)
    ELSE IF RatioGT(gasCostRatio(d), 5, 10)
    THEN Assessment("SKIP", ReasonRule2, Num(90), riskAnalysis)
    ELSE IF d.netProfitUsd < 200
    THEN Assessment("SKIP", ReasonRule4, Num(80), riskAnalysis)
    ELSE IF riskAnalysis.profitMargin = "thin"
            /\ (riskAnalysis.slippageRisk = "high"
                \/ riskAnalysis.mevRisk = "high")
    THEN Assessment("SKIP", ReasonRule3, Num(85), riskAnalysis)
    ELSE IF d.spread > 500
    THEN Assessment("SKIP", ReasonRule5, Num(75), riskAnalysis)
    ELSE IF d.liquidityDepth = "low" /\ d.amountInEth > 5
    THEN Assessment("SKIP", ReasonRule6, Num(80), riskAnalysis)
    ELSE Assessment("EXECUTE", ReasonExecute,
                    IF riskAnalysis.profitMargin = "safe"
                    THEN Num(90) ELSE Num(75),
                    riskAnalysis)

\* Variant: the $2 threshold is inclusive.
getFallbackDecisionInclusiveThreshold(d) ==
    LET riskAnalysis == calculateRiskAnalysis(d) IN
    IF d.netProfitUsd <= 0
    THEN Assessment("SKIP", ReasonRule1, Num(95), riskAnalysis)
    ELSE IF RatioGT(gasCostRatio(d), 5, 10)
    THEN Assessment("SKIP", ReasonRule2, Num(90), riskAnalysis)
    ELSE IF riskAnalysis.profitMargin = "thin"
            /\ (riskAnalysis.slippageRisk = "high"
                \/ riskAnalysis.mevRisk = "high")
    THEN Assessment("SKIP", ReasonRule3, Num(85), riskAnalysis)
    ELSE IF d.netProfitUsd <= 200
    THEN Assessment("SKIP", ReasonRule4, Num(80), riskAnalysis)
    ELSE IF d.spread > 500
    THEN Assessment("SKIP", ReasonRule5, Num(75), riskAnalysis)
    ELSE IF d.liquidityDepth = "low" /\ d.amountInEth > 5
    THEN Assessment("SKIP", ReasonRule6, Num(80), riskAnalysis)
    ELSE Assessment("EXECUTE", ReasonExecute,
                    IF riskAnalysis.profitMargin = "safe"
                    THEN Num(90) ELSE Num(75),
                    riskAnalysis)

\* Variant: the low-liquidity rule uses the 0.1 ETH bound of the MEV rating.
getFallbackDecisionMevBound(d) ==
    LET riskAnalysis == calculateRiskAnalysis(d) IN
    IF d.netProfitUsd <= 0
    THEN Assessment("SKIP", ReasonRule1, Num(95), riskAnalysis)
    ELSE IF RatioGT(gasCostRatio(d), 5, 10)
    THEN Assessment("SKIP", ReasonRule2, Num(90), riskAnalysis)
    ELSE IF riskAnalysis.profitMargin = "thin"
            /\ (riskAnalysis.slippageRisk = "high"
                \/ riskAnalysis.mevRisk = "high")
    THEN Assessment("SKIP", ReasonRule3, Num(85), riskAnalysis)
    ELSE IF d.netProfitUsd < 200
    THEN Assessment("SKIP", ReasonRule4, Num(80), riskAnalysis)
    ELSE IF d.spread > 500
    THEN Assessment("SKIP", ReasonRule5, Num(75), riskAnalysis)
    ELSE IF d.liquidityDepth = "low" /\ d.amountInEth > 10
    THEN Assessment("SKIP", ReasonRule6, Num(80), riskAnalysis)
    ELSE Assessment("EXECUTE", ReasonExecute,
                    IF riskAnalysis.profitMargin = "safe"
                    THEN Num(90) ELSE Num(75),
                    riskAnalysis)

\* (mutant: rule 3 applies whatever the profit margin)
getFallbackDecisionRiskFirst(d) ==
    LET riskAnalysis == calculateRiskAnalysis(d) IN
    IF d.netProfitUsd <= 0
    THEN Assessment("SKIP", ReasonRule1, Num(95), riskAnalysis)
    ELSE IF RatioGT(gasCostRatio(d), 5, 10)
    THEN Assessment("SKIP", ReasonRule2, Num(90), riskAnalysis)
    ELSE IF riskAnalysis.slippageRisk = "high"
            \/ riskAnalysis.mevRisk = "high"
    THEN Assessment("SKIP", ReasonRule3, Num(85), riskAnalysis)
    ELSE IF d.netProfitUsd < 200
    THEN Assessment("SKIP", ReasonRule4, Num(80), riskAnalysis)
    ELSE IF d.spread > 500
    THEN Assessment("SKIP", ReasonRule5, Num(75), riskAnalysis)
    ELSE IF d.liquidityDepth = "low" /\ d.amountInEth > 5
    THEN Assessment("SKIP", ReasonRule6, Num(80), riskAnalysis)
    ELSE Assessment("EXECUTE", ReasonExecute,
                    IF riskAnalysis.profitMargin = "safe"
                    THEN Num(90) ELSE Num(75),
                    riskAnalysis)

getFallbackDecision(d) ==
    LET riskAnalysis == calculateRiskAnalysis(d) IN
    IF d.netProfitUsd <= 0
    THEN Assessment("SKIP", ReasonRule1, Num(95), riskAnalysis)
    ELSE IF RatioGT(gasCostRatio(d), 5, 10)
    THEN Assessment("SKIP", ReasonRule2, Num(90), riskAnalysis)
    ELSE IF riskAnalysis.profitMargin = "thin"
            /\ (riskAnalysis.slippageRisk = "high"
                \/ riskAnalysis.mevRisk = "high")
    THEN Assessment("SKIP", ReasonRule3, Num(85), riskAnalysis)
    ELSE IF d.netProfitUsd < 200
    THEN Assessment("SKIP", ReasonRule4, Num(80), riskAnalysis)
    ELSE IF d.spread > 500
    THEN Assessment("SKIP", ReasonRule5, Num(75), riskAnalysis)
    ELSE IF d.liquidityDepth = "low" /\ d.amountInEth > 5
    THEN Assessment("SKIP", ReasonRule6, Num(80), riskAnalysis)
    ELSE Assessment("EXECUTE", ReasonExecute,
                    IF riskAnalysis.profitMargin = "safe"
                    THEN Num(90) ELSE Num(75),
                    riskAnalysis)

(***************************************************************************)
(* Reasoning-service responses                                             *)
(***************************************************************************)

\* riskAnalysis of a response object: absent, or an object whose four
\* fields hold whatever strings the service wrote.
NoRiskAnalysis ==
    [present |-> FALSE,
     value |-> [gasRisk |-> Undefined, slippageRisk |-> Undefined,
                mevRisk |-> Undefined, profitMargin |-> Undefined]]

RiskAnalysisPayloads ==
    {NoRiskAnalysis,
     [present |-> TRUE,
      value |-> [gasRisk |-> "low", slippageRisk |-> "medium",
                 mevRisk |-> "low", profitMargin |-> "safe"]],
     [present |-> TRUE,
      value |-> [gasRisk |-> "extreme", slippageRisk |-> "low",
                 mevRisk |-> "low", profitMargin |-> "safe"]]}

ConfidencePayloads ==
    {JAbsent, JNull, JText(FALSE, 0), JText(TRUE, 80)}
    \cup {JNumber(50 * k - 50) : k \in 0..MaxConfidenceSteps}

DecisionPayloads == {"EXECUTE", "SKIP", "HOLD", Undefined}

ReasonPayloads == {"Risks are manageable", Undefined}

ResponseObjects ==
    [decision : DecisionPayloads,
     reason : ReasonPayloads,
     confidence : ConfidencePayloads,
     riskAnalysis : RiskAnalysisPayloads]

NoObject ==
    [decision |-> Undefined, reason |-> Undefined,
     confidence |-> JAbsent, riskAnalysis |-> NoRiskAnalysis]

\* The text of a response: text without a brace-delimited span, text whose
\* span is not JSON, or text whose span is the JSON of an object.
ResponseTexts ==
    {[shape |-> "no_braces", obj |-> NoObject],
     [shape |-> "malformed", obj |-> NoObject]}
    \cup {[shape |-> "json", obj |-> o] : o \in ResponseObjects}

\* response.match(/\{[\s\S]*\}/) finds a span
jsonMatch(r) == r.shape # "no_braces"

\* No response received (yet).
NoResponse == [shape |-> "none", obj |-> NoObject]

\* JSON.parse(jsonMatch[0]): the object, or a SyntaxError
JSONparse(r) ==
    IF r.shape = "json"
    THEN [ok |-> TRUE, value |-> r.obj]
    ELSE [ok |-> FALSE, value |-> NoObject]

NoResult == Assessment("none", Undefined, NaN, NoRiskAnalysis.value)

(***************************************************************************)
(* getAIDecision                                                           *)
(*                                                                         *)
(* state is the position of the request in the function, named after the   *)
(* request states: PENDING on entry, AI_ATTEMPTED while generateContent is *)
(* awaited, AI_SUCCEEDED once the parsed object passed validation,         *)
(* AI_FAILED at each `return getFallbackDecision(data)`, FALLBACK_APPLIED  *)
(* once that call has been evaluated, DECIDED when the promise resolved.   *)
(***************************************************************************)

States ==
    {"PENDING", "AI_ATTEMPTED", "AI_SUCCEEDED", "AI_FAILED",
     "FALLBACK_APPLIED", "DECIDED"}

\* Variant: the error leaves getAIDecision and rejects the caller's promise.
CatchErrorRethrow(error) == "REJECTED"

\* Variant: the call is issued again after an error.
CatchErrorRetry(error) == "PENDING"

\* The catch block of getAIDecision: the error is logged and the request
\* continues with the fallback.
CatchError(error) == "AI_FAILED"

\* The continuation of getAIDecision after the awaited call resolved, up
\* to the structural validation of the parsed object.
ValidateResponse(r) ==
    IF ~jsonMatch(r) THEN "AI_FAILED"
    ELSE IF ~JSONparse(r).ok THEN CatchError("SyntaxError")
    ELSE IF JSONparse(r).value.decision \notin {"EXECUTE", "SKIP"}
    THEN "AI_FAILED"
    ELSE "AI_SUCCEEDED"

\* Variant: the riskAnalysis of the response is returned as it came.
AIResultAsReceived(p, d) ==
    Assessment(p.decision,
               IF p.reason # Undefined THEN p.reason ELSE "No reason provided",
               MathMin(Num(100),
                       MathMax(Num(0), ToNumber(OrElse(p.confidence, 50)))),
               p.riskAnalysis.value)

\* The object returned on the AI path, for the parsed object p.
AIResult(p, d) ==
    Assessment(p.decision,
               IF p.reason # Undefined THEN p.reason ELSE "No reason provided",
               MathMin(Num(100),
                       MathMax(Num(0), ToNumber(OrElse(p.confidence, 50)))),
               IF ~p.riskAnalysis.present
               THEN calculateRiskAnalysis(d)
               ELSE p.riskAnalysis.value)

(***************************************************************************)
(* Estimate endpoint: request bodies and cost sources                      *)
(*                                                                         *)
(* Trade amounts are hundredths of an ETH, prices whole dollars, so that   *)
(* amount * price is a figure in cents.                                    *)
(***************************************************************************)

\* The empty string, and a text that starts with the number n and goes on
\* with other characters ("0.01abc").
JEmpty == [k |-> "empty", n |-> 0, numeric |-> FALSE]
JPrefixed(n) == [k |-> "prefixed", n |-> n, numeric |-> FALSE]

\* !x
IsFalsy(j) ==
    \/ j.k \in {"absent", "null", "empty"}
    \/ j.k = "number" /\ j.n = 0

\* parseFloat(x): the number at the start of the text, NaN if there is none
parseFloat(j) ==
    CASE j.k \in {"absent", "null", "empty"} -> NaN
      [] j.k = "number" -> Num(j.n)
      [] j.k = "string" -> IF j.numeric THEN Num(j.n) ELSE NaN
      [] j.k = "prefixed" -> Num(j.n)

isNaN(x) == x.t = "nan"

\* Arithmetic and comparison of JavaScript numbers.
JsAdd(a, b) == IF isNaN(a) \/ isNaN(b) THEN NaN ELSE Num(a.v + b.v)
JsSub(a, b) == IF isNaN(a) \/ isNaN(b) THEN NaN ELSE Num(a.v - b.v)
JsMul(a, b) == IF isNaN(a) \/ isNaN(b) THEN NaN ELSE Num(a.v * b.v)
JsGT(a, b) == ~isNaN(a) /\ ~isNaN(b) /\ a.v > b.v
JsLE(a, b) == ~isNaN(a) /\ ~isNaN(b) /\ a.v <= b.v

AmountFields ==
    {JAbsent, JEmpty, JText(TRUE, 0), JText(TRUE, -1), JText(FALSE, 0),
     JPrefixed(1), JText(TRUE, 1), JText(TRUE, 5), JText(TRUE, 100)}

PriceFields ==
    {JAbsent, JNumber(0), JText(FALSE, 0),
     JNumber(2900), JNumber(3000), JNumber(3100)}

\* A body that is not JSON makes request.json() throw.
MalformedBody ==
    [json |-> FALSE, amount |-> JAbsent, buyPrice |-> JAbsent,
     sellPrice |-> JAbsent]

Bodies ==
    {MalformedBody}
    \cup [json : {TRUE}, amount : AmountFields, buyPrice : PriceFields,
          sellPrice : PriceFields]

Costs == {"bridging", "gas", "mev", "bridgeSlippage", "ammSlippage"}

\* totalMevCostUsd of getMevFees, in cents, for an amount a in hundredths
\* of an ETH.  ETH figures are in millionths, the precision of toFixed(6).
\* (mutant: Math.max in place of Math.min)
priorityFeeEthMax(a) == 200 + (IF 10 * a >= 300 THEN 10 * a ELSE 300)
priorityFeeEth(a) == 200 + (IF 10 * a <= 300 THEN 10 * a ELSE 300)
builderTipEth(a) == 3 * a
totalMevCostEth(a) == priorityFeeEth(a) + builderTipEth(a)
totalMevCostUsd(a) == (totalMevCostEth(a) * 35 + 50) \div 100

\* The USD figure a fulfilled cost promise may carry: totalFeesUsd,
\* totalGasCostUsd, totalMevCostUsd, totalLossUsd and slippageAmount.  The
\* four service-backed sources may leave it out or deliver a text that is
\* not a number; getMevFees computes it.
\* The loss and slippage amounts the two slippage services deliver: never
\* negative, and possibly left out.
BridgeLossFigures == {JText(TRUE, 0), JText(TRUE, 8), JAbsent}
AmmSlippageFigures == {JNumber(0), JText(TRUE, 3), JAbsent}

Deliverable(c, amount) ==
    CASE c = "bridging" -> {JText(TRUE, 10), JText(TRUE, 35), JAbsent}
      [] c = "gas" -> {JText(TRUE, 15), JText(TRUE, 120), JText(FALSE, 0)}
      [] c = "mev" -> {JText(TRUE, totalMevCostUsd(parseFloat(amount).v))}
      [] c = "bridgeSlippage" -> BridgeLossFigures
      [] c = "ammSlippage" -> AmmSlippageFigures

\* The message of the error a failed cost function throws.
FetchError(c) ==
    CASE c = "bridging" -> "Failed to get bridging fees"
      [] c = "gas" -> "Failed to get complete flow gas fees"
      [] c = "mev" -> "Failed to calculate MEV fees"
      [] c = "bridgeSlippage" -> "Failed to calculate bridge slippage"
      [] c = "ammSlippage" -> "Failed to calculate ETH to USDC slippage"

(***************************************************************************)
(* Estimate endpoint: POST                                                 *)
(***************************************************************************)

\* The message of the first validation that fails, "none" if all pass.
ValidationError(b) ==
    IF IsFalsy(b.amount) \/ isNaN(parseFloat(b.amount))
       \/ JsLE(parseFloat(b.amount), Num(0))
    THEN "Invalid amount: must be a positive number"
    ELSE IF IsFalsy(b.buyPrice) \/ isNaN(parseFloat(b.buyPrice))
            \/ JsLE(parseFloat(b.buyPrice), Num(0))
    THEN "Invalid buy price: must be a positive number"
    ELSE IF IsFalsy(b.sellPrice) \/ isNaN(parseFloat(b.sellPrice))
            \/ JsLE(parseFloat(b.sellPrice), Num(0))
    THEN "Invalid sell price: must be a positive number"
    ELSE "none"

\* spreadPercent of POST for prices in dollars, as the ratio <<n, d>> of
\* percent: (sell - buy) / buy * 100.
spreadPercent(buyPrice, sellPrice) == <<(sellPrice - buyPrice) * 100, buyPrice>>

\* calculateSpread of lib/math/profit.ts, as a ratio of percent.
calculateSpread(priceA, priceB) ==
    LET minPrice == IF priceA <= priceB THEN priceA ELSE priceB
        maxPrice == IF priceA >= priceB THEN priceA ELSE priceB
    IN <<(maxPrice - minPrice) * 100, minPrice>>

\* calculateSwapFees of lib/math/profit.ts, in cents: the fee rate
\* feeBps / 1000000 is charged on both legs.
calculateSwapFees(amountInEth, feeBps, ethPriceUsd) ==
    (amountInEth * ethPriceUsd * feeBps * 2) \div 1000000

NoSimulation ==
    [amountInEth |-> NaN, buyPrice |-> NaN, sellPrice |-> NaN,
     spreadPercent |-> <<0, 1>>, gasCostUsd |-> NaN,
     bridgeSlippageUsd |-> NaN, ammSlippageUsd |-> NaN,
     slippageUsd |-> NaN, feesUsd |-> NaN, bridgingFeesUsd |-> NaN,
     totalCostsUsd |-> NaN, grossProfitUsd |-> NaN, netProfitUsd |-> NaN,
     tradeSizeUsd |-> NaN, shouldExecute |-> FALSE,
     liquidityDepth |-> "none", keys |-> {}]

\* The properties of the simulation object of a successful response.
SimulationKeys ==
    {"amountInEth", "buyPrice", "sellPrice", "spreadPercent", "gasCostUsd",
     "slippageUsd", "feesUsd", "bridgingFeesUsd", "totalCostsUsd",
     "grossProfitUsd", "netProfitUsd", "profitMarginPct", "roiPct",
     "shouldExecute", "recommendation", "slippageBreakdown", "gasBreakdown",
     "bridgingBreakdown", "mevBreakdown", "liquidityDepth", "tradeSizeUsd",
     "breakdown"}

\* Variant: bridging fees are left out of the total.
SimulationWithoutBridging(b, f) ==
    LET amountFloat == parseFloat(b.amount)
        buyPriceFloat == parseFloat(b.buyPrice)
        sellPriceFloat == parseFloat(b.sellPrice)
        gasCostUsd == parseFloat(f["gas"])
        bridgeSlippageUsd == parseFloat(OrElse(f["bridgeSlippage"], 0))
        ammSlippageUsd == parseFloat(OrElse(f["ammSlippage"], 0))
        slippageUsd == JsAdd(bridgeSlippageUsd, ammSlippageUsd)
        feesUsd == parseFloat(f["mev"])
        bridgingFeesUsd == parseFloat(f["bridging"])
        grossProfitUsd == JsMul(amountFloat, JsSub(sellPriceFloat, buyPriceFloat))
        totalCostsUsd == JsAdd(JsAdd(gasCostUsd, slippageUsd), feesUsd)
        netProfitUsd == JsSub(grossProfitUsd, totalCostsUsd)
    IN [amountInEth |-> amountFloat, buyPrice |-> buyPriceFloat,
        sellPrice |-> sellPriceFloat,
        spreadPercent |-> spreadPercent(buyPriceFloat.v, sellPriceFloat.v),
        gasCostUsd |-> gasCostUsd,
        bridgeSlippageUsd |-> bridgeSlippageUsd,
        ammSlippageUsd |-> ammSlippageUsd,
        slippageUsd |-> slippageUsd, feesUsd |-> feesUsd,
        bridgingFeesUsd |-> bridgingFeesUsd,
        totalCostsUsd |-> totalCostsUsd, grossProfitUsd |-> grossProfitUsd,
        netProfitUsd |-> netProfitUsd,
        tradeSizeUsd |-> JsMul(amountFloat, buyPriceFloat),
        shouldExecute |-> JsGT(netProfitUsd, Num(0)),
        liquidityDepth |-> "HIGH", keys |-> SimulationKeys]

\* Variant: a break-even trade is recommended.
SimulationAtBreakEven(b, f) ==
    LET amountFloat == parseFloat(b.amount)
        buyPriceFloat == parseFloat(b.buyPrice)
        sellPriceFloat == parseFloat(b.sellPrice)
        gasCostUsd == parseFloat(f["gas"])
        bridgeSlippageUsd == parseFloat(OrElse(f["bridgeSlippage"], 0))
        ammSlippageUsd == parseFloat(OrElse(f["ammSlippage"], 0))
        slippageUsd == JsAdd(bridgeSlippageUsd, ammSlippageUsd)
        feesUsd == parseFloat(f["mev"])
        bridgingFeesUsd == parseFloat(f["bridging"])
        grossProfitUsd == JsMul(amountFloat, JsSub(sellPriceFloat, buyPriceFloat))
        totalCostsUsd ==
            JsAdd(JsAdd(JsAdd(gasCostUsd, slippageUsd), feesUsd), bridgingFeesUsd)
        netProfitUsd == JsSub(grossProfitUsd, totalCostsUsd)
    IN [amountInEth |-> amountFloat, buyPrice |-> buyPriceFloat,
        sellPrice |-> sellPriceFloat,
        spreadPercent |-> spreadPercent(buyPriceFloat.v, sellPriceFloat.v),
        gasCostUsd |-> gasCostUsd,
        bridgeSlippageUsd |-> bridgeSlippageUsd,
        ammSlippageUsd |-> ammSlippageUsd,
        slippageUsd |-> slippageUsd, feesUsd |-> feesUsd,
        bridgingFeesUsd |-> bridgingFeesUsd,
        totalCostsUsd |-> totalCostsUsd, grossProfitUsd |-> grossProfitUsd,
        netProfitUsd |-> netProfitUsd,
        tradeSizeUsd |-> JsMul(amountFloat, buyPriceFloat),
        shouldExecute |-> ~isNaN(netProfitUsd) /\ netProfitUsd.v >= 0,
        liquidityDepth |-> "HIGH", keys |-> SimulationKeys]

\* The simulation object POST builds from the body b and the figures f of
\* the five fulfilled promises.
Simulation(b, f) ==
    LET amountFloat == parseFloat(b.amount)
        buyPriceFloat == parseFloat(b.buyPrice)
        sellPriceFloat == parseFloat(b.sellPrice)
        gasCostUsd == parseFloat(f["gas"])
        bridgeSlippageUsd == parseFloat(OrElse(f["bridgeSlippage"], 0))
        ammSlippageUsd == parseFloat(OrElse(f["ammSlippage"], 0))
        slippageUsd == JsAdd(bridgeSlippageUsd, ammSlippageUsd)
        feesUsd == parseFloat(f["mev"])
        bridgingFeesUsd == parseFloat(f["bridging"])
        grossProfitUsd == JsMul(amountFloat, JsSub(sellPriceFloat, buyPriceFloat))
        totalCostsUsd ==
            JsAdd(JsAdd(JsAdd(gasCostUsd, slippageUsd), feesUsd), bridgingFeesUsd)
        netProfitUsd == JsSub(grossProfitUsd, totalCostsUsd)
    IN [amountInEth |-> amountFloat, buyPrice |-> buyPriceFloat,
        sellPrice |-> sellPriceFloat,
        spreadPercent |-> spreadPercent(buyPriceFloat.v, sellPriceFloat.v),
        gasCostUsd |-> gasCostUsd,
        bridgeSlippageUsd |-> bridgeSlippageUsd,
        ammSlippageUsd |-> ammSlippageUsd,
        slippageUsd |-> slippageUsd, feesUsd |-> feesUsd,
        bridgingFeesUsd |-> bridgingFeesUsd,
        totalCostsUsd |-> totalCostsUsd, grossProfitUsd |-> grossProfitUsd,
        netProfitUsd |-> netProfitUsd,
        tradeSizeUsd |-> JsMul(amountFloat, buyPriceFloat),
        shouldExecute |-> JsGT(netProfitUsd, Num(0)),
        liquidityDepth |-> "HIGH", keys |-> SimulationKeys]

\* HTTP responses.  success is "absent" when the body has no such property.
NoReply ==
    [status |-> 0, success |-> "absent", error |-> "none",
     simulation |-> NoSimulation]

BadRequest(message) ==
    [status |-> 400, success |-> "absent", error |-> message,
     simulation |-> NoSimulation]

ServerError(message) ==
    [status |-> 500, success |-> "false", error |-> message,
     simulation |-> NoSimulation]

Success(simulation) ==
    [status |-> 200, success |-> "true", error |-> "none",
     simulation |-> simulation]

\* Variant: the five cost functions are called before the body is checked.
StartFetchesEagerly(valid) == [c \in Costs |-> "pending"]

\* The cost functions POST has called once validation is over: all five
\* for a valid body, none for a rejected one.
StartFetches(valid) ==
    IF valid THEN [c \in Costs |-> "pending"] ELSE [c \in Costs |-> "idle"]

\* Variant: the join waits for every promise to settle and never rejects.
PromiseAllSettled(f) ==
    IF \A c \in Costs : f[c] \in {"fulfilled", "rejected"} THEN "fulfilled"
    ELSE "pending"

\* Variant: the join resolves with the first fulfilled promise.
PromiseAny(f) ==
    IF \E c \in Costs : f[c] = "fulfilled" THEN "fulfilled"
    ELSE IF \A c \in Costs : f[c] = "rejected" THEN "rejected"
    ELSE "pending"

\* Promise.all over the five cost promises: rejected as soon as one of
\* them is, fulfilled once all of them are.
PromiseAll(f) ==
    IF \E c \in Costs : f[c] = "rejected" THEN "rejected"
    ELSE IF \A c \in Costs : f[c] = "fulfilled" THEN "fulfilled"
    ELSE "pending"

(***************************************************************************)
(* Part 3: the cost functions and fee utilities, called on their own       *)
(*                                                                         *)
(* Each behaviour is one call: the arguments are drawn, the function runs  *)
(* to its return or throw, and the upstream service it awaits answers in   *)
(* the same step.  Gas prices are in gwei and wei as noted at each         *)
(* function.                                                               *)
(***************************************************************************)

\* Largest trade amount, in hundredths of an ETH, a utility is called with.
MaxAmountInEth == 35

\* A function that returned value v after calling `services` services.
Returned(v, services) ==
    [kind |-> "returned", value |-> v, message |-> "none",
     services |-> services]

\* A function that threw an Error with this message.
Threw(message, services) ==
    [kind |-> "threw", value |-> NaN, message |-> message,
     services |-> services]

NoCall == [fn |-> "none", args |-> <<>>]
NoOutcome ==
    [kind |-> "none", value |-> NaN, message |-> "none", services |-> 0]

\* ---- lib/math/profit.ts ----

\* calculateGasCost, in cents, for a gas price in gwei and gas units in
\* thousands: gasPrice * 10^9 * gasUnits * 10^3 / 10^18 * ethPriceUsd
\* dollars.
calculateGasCost(gasPrice, gasUnits, ethPriceUsd) ==
    (gasPrice * gasUnits * ethPriceUsd) \div 10000

\* Mutant: the difference of the two outputs is returned as it is.
calculateSlippageCostSigned(amountInEth, spotPrice, executionPrice, ethPriceUsd) ==
    amountInEth * spotPrice - amountInEth * executionPrice

\* calculateSlippageCost, in cents.
calculateSlippageCost(amountInEth, spotPrice, executionPrice, ethPriceUsd) ==
    LET expectedOut == amountInEth * spotPrice
        actualOut == amountInEth * executionPrice
        slippageUsd == expectedOut - actualOut
    IN IF slippageUsd >= 0 THEN slippageUsd ELSE 0

GasPricesGwei == {-1, 0, 1, 10}
GasUnits == {0, 350}
EthAmounts == {-1, 0, 1, 10}
EthPrices == {-3000, 0, 2900, 3000}
FeeTiers == {0, 100, 500, 3000, 10000}

\* ---- functions/*.js and mev_fees.js ----

InvalidAmount == "Invalid amount: must be a positive number"
InvalidEthAmount == "Invalid ethAmount: must be a positive number"
InvalidFeeTier == "Invalid feeTier: must be 500, 3000, or 10000"
ServiceFailure == "service request failed"

\* catch (error) { throw new Error(`${context}: ${error.message}`) }
Rethrow(context, message, services) ==
    Threw(context \o ": " \o message, services)

\* !amount || parseFloat(amount) <= 0
RejectsAmount(amount) ==
    IsFalsy(amount) \/ JsLE(parseFloat(amount), Num(0))

\* ![500, 3000, 10000].includes(feeTier)
RejectsFeeTier(feeTier) == feeTier \notin {500, 3000, 10000}

UtilityAmounts ==
    AmountFields \cup {JText(TRUE, n) : n \in 1..MaxAmountInEth}

\* A figure computed from parseFloat(amount): NaN when that is NaN.
OfAmount(amountFloat, figure) ==
    IF isNaN(amountFloat) THEN NaN ELSE Num(figure)

\* getMevFees: ETH figures in millionths, the USD figure in cents.
getMevFees(amount) ==
    IF RejectsAmount(amount)
    THEN {Rethrow(FetchError("mev"), InvalidAmount, 0)}
    ELSE LET amountFloat == parseFloat(amount)
         IN {Returned([priorityFeeEth |->
                           OfAmount(amountFloat, priorityFeeEth(amountFloat.v)),
                       builderTipEth |->
                           OfAmount(amountFloat, builderTipEth(amountFloat.v)),
                       totalMevCostEth |->
                           OfAmount(amountFloat, totalMevCostEth(amountFloat.v)),
                       totalMevCostUsd |->
                           OfAmount(amountFloat, totalMevCostUsd(amountFloat.v))],
                      0)}

\* getBridgingFees: the service is awaited once and either fails or
\* delivers totalFeesUsd.
getBridgingFees(amount) ==
    IF RejectsAmount(amount)
    THEN {Rethrow(FetchError("bridging"), InvalidAmount, 0)}
    ELSE {Rethrow(FetchError("bridging"), ServiceFailure, 1)}
         \cup {Returned([totalFeesUsd |-> v], 1) :
                  v \in Deliverable("bridging", amount)}

\* bridgeSlippage
bridgeSlippage(amount) ==
    IF RejectsAmount(amount)
    THEN {Rethrow(FetchError("bridgeSlippage"), InvalidAmount, 0)}
    ELSE {Rethrow(FetchError("bridgeSlippage"), ServiceFailure, 1)}
         \cup {Returned([totalLossUsd |-> v], 1) :
                  v \in Deliverable("bridgeSlippage", amount)}

\* ammSlippageETHtoUSDC
ammSlippageETHtoUSDC(ethAmount, feeTier) ==
    IF RejectsAmount(ethAmount)
    THEN {Rethrow(FetchError("ammSlippage"), InvalidEthAmount, 0)}
    ELSE IF RejectsFeeTier(feeTier)
    THEN {Rethrow(FetchError("ammSlippage"), InvalidFeeTier, 0)}
    ELSE {Rethrow(FetchError("ammSlippage"), ServiceFailure, 1)}
         \cup {Returned([slippageAmount |-> v], 1) :
                  v \in Deliverable("ammSlippage", ethAmount)}

\* gasCostUsd as the gas fee service delivers it for one operation.
GasCostFigures == {JText(TRUE, 5), JText(TRUE, 10), JAbsent}

\* getBaseDepositGasFees
getBaseDepositGasFees(amount) ==
    LET context == "Failed to get Base deposit gas fees" IN
    IF RejectsAmount(amount)
    THEN {Rethrow(context, InvalidAmount, 0)}
    ELSE {Rethrow(context, ServiceFailure, 1)}
         \cup {Returned([gasCostUsd |-> v], 1) : v \in GasCostFigures}

\* getArbitrumSwapGasFees
getArbitrumSwapGasFees(amount, feeTier) ==
    LET context == "Failed to get Arbitrum swap gas fees" IN
    IF RejectsAmount(amount)
    THEN {Rethrow(context, InvalidAmount, 0)}
    ELSE IF RejectsFeeTier(feeTier)
    THEN {Rethrow(context, InvalidFeeTier, 0)}
    ELSE {Rethrow(context, ServiceFailure, 1)}
         \cup {Returned([gasCostUsd |-> v], 1) : v \in GasCostFigures}

\* x.toFixed(2) of a figure in cents: a numeric text, "NaN" for NaN.
toFixed(x) == IF isNaN(x) THEN JText(FALSE, 0) ELSE JText(TRUE, x.v)

\* getCompleteFlowGasFees: the deposit fees are awaited, then the swap
\* fees; the first failure is rethrown.
getCompleteFlowGasFees(amount, feeTier) ==
    LET context == FetchError("gas") IN
    IF RejectsAmount(amount)
    THEN {Rethrow(context, InvalidAmount, 0)}
    ELSE IF RejectsFeeTier(feeTier)
    THEN {Rethrow(context, InvalidFeeTier, 0)}
    ELSE UNION {
           IF depositFees.kind = "threw"
           THEN {Rethrow(context, depositFees.message, 1)}
           ELSE {IF swapFees.kind = "threw"
                 THEN Rethrow(context, swapFees.message, 2)
                 ELSE Returned(
                        [totalGasCostUsd |->
                            toFixed(JsAdd(
                                parseFloat(depositFees.value.gasCostUsd),
                                parseFloat(swapFees.value.gasCostUsd)))],
                        2) :
                 swapFees \in getArbitrumSwapGasFees(amount, feeTier)} :
           depositFees \in getBaseDepositGasFees(amount)}

\* ---- part_003: calculateRiskAnalysis on its own ----

RiskInputs ==
    [spread : {20},
     gasCostUsd : {0, 30, 31, 50, 51},
     slippageUsd : {0, 25, 26, 100, 101, 200, 201},
     feesUsd : {0, 25},
     netProfitUsd : {-100, -25, 0, 49, 50, 69, 70, 74, 75, 199, 200, 1000,
                     1001},
     liquidityDepth : LiquidityDepths,
     amountInEth : {10, 11}]

\* ---- part_004: fallbackTimingRisk ----

GasUsdValues == {0, 30, 31, 50, 51, 100}
TimingNetProfitUsdValues == {-100, 0, 100, 600}
TimingRiskInputs == [gasUsd : GasUsdValues,
                     netProfitUsd : TimingNetProfitUsdValues]

\* input.netProfitUsd > 0 ? input.gasUsd / input.netProfitUsd : 1
gasProfitRatio(input) ==
    IF input.netProfitUsd > 0
    THEN <<input.gasUsd, input.netProfitUsd>>
    ELSE <<1, 1>>

\* input.gasUsd > 0 ? input.netProfitUsd / input.gasUsd : 0
profitGasMultiple(input) ==
    IF input.gasUsd > 0
    THEN <<input.netProfitUsd, input.gasUsd>>
    ELSE <<0, 1>>

\* `Gas cost is ${(gasProfitRatio * 100).toFixed(0)}% of profit - ...`
HighTimingReason(ratio) ==
    "Gas cost is "
    \o ToString((ratio[1] * 200 + ratio[2]) \div (2 * ratio[2]))
    \o "% of profit - vulnerable to gas spikes"

\* Mutant: the ratio is taken of a non-positive profit as well.
fallbackTimingRiskUnguarded(input) ==
    LET ratio == IF input.netProfitUsd > 0
                 THEN <<input.gasUsd, input.netProfitUsd>>
                 ELSE IF input.netProfitUsd < 0
                 THEN <<-input.gasUsd, -input.netProfitUsd>>
                 ELSE <<input.gasUsd, 1>>
    IN IF RatioGT(ratio, 1, 2)
       THEN [timingRisk |-> "HIGH",
             reason |-> HighTimingReason(ratio),
             confidence |-> 90]
       ELSE IF RatioGT(ratio, 3, 10)
       THEN [timingRisk |-> "MEDIUM",
             reason |-> "Profit margin thin relative to gas cost - moderate timing risk",
             confidence |-> 80]
       ELSE IF RatioGT(profitGasMultiple(input), 5, 1)
       THEN [timingRisk |-> "LOW",
             reason |-> "Strong profit margin provides buffer against gas volatility",
             confidence |-> 85]
       ELSE [timingRisk |-> "LOW",
             reason |-> "Execution timing window appears stable",
             confidence |-> 75]

\* fallbackTimingRisk; confidence in hundredths.
fallbackTimingRisk(input) ==
    IF RatioGT(gasProfitRatio(input), 1, 2)
    THEN [timingRisk |-> "HIGH",
          reason |-> HighTimingReason(gasProfitRatio(input)),
          confidence |-> 90]
    ELSE IF RatioGT(gasProfitRatio(input), 3, 10)
    THEN [timingRisk |-> "MEDIUM",
          reason |-> "Profit margin thin relative to gas cost - moderate timing risk",
          confidence |-> 80]
    ELSE IF RatioGT(profitGasMultiple(input), 5, 1)
    THEN [timingRisk |-> "LOW",
          reason |-> "Strong profit margin provides buffer against gas volatility",
          confidence |-> 85]
    ELSE [timingRisk |-> "LOW",
          reason |-> "Execution timing window appears stable",
          confidence |-> 75]

\* ---- lib/contracts.ts: getGasPrice ----

Chains == {"baseSepolia", "arbitrumSepolia", "base", "arbitrum"}

normalizedChain(chain) ==
    IF chain = "base" THEN "baseSepolia"
    ELSE IF chain = "arbitrum" THEN "arbitrumSepolia"
    ELSE chain

\* ethers.parseUnits('1', 'gwei'), in wei
OneGwei == 1000000000

\* What provider.getFeeData() resolves with, fields in wei; a field may be
\* null.  `failed` stands for getProvider or getFeeData throwing.
FeeFields == {JNull, JNumber(0), JNumber(250000000), JNumber(2000000000)}
FeeData ==
    [failed : {FALSE}, gasPrice : FeeFields, maxFeePerGas : FeeFields]
    \cup {[failed |-> TRUE, gasPrice |-> JNull, maxFeePerGas |-> JNull]}

\* Mutant: ?? in place of ||, so a zero gas price is returned.
getGasPriceNullish(chain, feeData) ==
    IF feeData.failed
    THEN Returned(OneGwei, 1)
    ELSE IF feeData.gasPrice.k # "null"
    THEN Returned(feeData.gasPrice.n, 1)
    ELSE IF feeData.maxFeePerGas.k # "null"
    THEN Returned(feeData.maxFeePerGas.n, 1)
    ELSE Returned(OneGwei, 1)

\* getGasPrice, in wei, for what the provider of the chain answered.
getGasPrice(chain, feeData) ==
    IF feeData.failed
    THEN Returned(OneGwei, 1)
    ELSE IF Truthy(feeData.gasPrice)
    THEN Returned(feeData.gasPrice.n, 1)
    ELSE IF Truthy(feeData.maxFeePerGas)
    THEN Returned(feeData.maxFeePerGas.n, 1)
    ELSE Returned(OneGwei, 1)

\* ---- the calls ----

UtilityIdle ==
    /\ call = NoCall
    /\ outcome = NoOutcome

CallCalculateGasCost ==
    /\ call = NoCall
    /\ \E gasPrice \in GasPricesGwei, gasUnits \in GasUnits,
          ethPriceUsd \in EthPrices :
           /\ call' = [fn |-> "calculateGasCost",
                       args |-> [gasPrice |-> gasPrice, gasUnits |-> gasUnits,
                                 ethPriceUsd |-> ethPriceUsd]]
           /\ outcome' = Returned(
                 Num(calculateGasCost(gasPrice, gasUnits, ethPriceUsd)), 0)
           /\ UNCHANGED <<classifierVars, estimateVars, pageVars>>

CallCalculateSwapFees ==
    /\ call = NoCall
    /\ \E amountInEth \in EthAmounts, feeBps \in FeeTiers,
          ethPriceUsd \in EthPrices :
           /\ call' = [fn |-> "calculateSwapFees",
                       args |-> [amountInEth |-> amountInEth,
                                 feeBps |-> feeBps,
                                 ethPriceUsd |-> ethPriceUsd]]
           /\ outcome' = Returned(
                 Num(calculateSwapFees(amountInEth, feeBps, ethPriceUsd)), 0)
           /\ UNCHANGED <<classifierVars, estimateVars, pageVars>>

CallCalculateSlippageCost ==
    /\ call = NoCall
    /\ \E amountInEth \in EthAmounts, spotPrice \in EthPrices,
          executionPrice \in EthPrices, ethPriceUsd \in EthPrices :
           /\ call' = [fn |-> "calculateSlippageCost",
                       args |-> [amountInEth |-> amountInEth,
                                 spotPrice |-> spotPrice,
                                 executionPrice |-> executionPrice,
                                 ethPriceUsd |-> ethPriceUsd]]
           /\ outcome' = Returned(
                 Num(calculateSlippageCost(amountInEth, spotPrice,
                                           executionPrice, ethPriceUsd)), 0)
           /\ UNCHANGED <<classifierVars, estimateVars, pageVars>>

CallGetMevFees ==
    /\ call = NoCall
    /\ \E a \in UtilityAmounts :
           /\ call' = [fn |-> "getMevFees", args |-> [amount |-> a]]
           /\ outcome' \in getMevFees(a)
           /\ UNCHANGED <<classifierVars, estimateVars, pageVars>>

CallGetBridgingFees ==
    /\ call = NoCall
    /\ \E a \in UtilityAmounts :
           /\ call' = [fn |-> "getBridgingFees", args |-> [amount |-> a]]
           /\ outcome' \in getBridgingFees(a)
           /\ UNCHANGED <<classifierVars, estimateVars, pageVars>>

CallBridgeSlippage ==
    /\ call = NoCall
    /\ \E a \in UtilityAmounts :
           /\ call' = [fn |-> "bridgeSlippage", args |-> [amount |-> a]]
           /\ outcome' \in bridgeSlippage(a)
           /\ UNCHANGED <<classifierVars, estimateVars, pageVars>>

CallAmmSlippageETHtoUSDC ==
    /\ call = NoCall
    /\ \E a \in AmountFields, feeTier \in FeeTiers :
           /\ call' = [fn |-> "ammSlippageETHtoUSDC",
                       args |-> [amount |-> a, feeTier |-> feeTier]]
           /\ outcome' \in ammSlippageETHtoUSDC(a, feeTier)
           /\ UNCHANGED <<classifierVars, estimateVars, pageVars>>

CallGetArbitrumSwapGasFees ==
    /\ call = NoCall
    /\ \E a \in AmountFields, feeTier \in FeeTiers :
           /\ call' = [fn |-> "getArbitrumSwapGasFees",
                       args |-> [amount |-> a, feeTier |-> feeTier]]
           /\ outcome' \in getArbitrumSwapGasFees(a, feeTier)
           /\ UNCHANGED <<classifierVars, estimateVars, pageVars>>

CallGetCompleteFlowGasFees ==
    /\ call = NoCall
    /\ \E a \in AmountFields, feeTier \in FeeTiers :
           /\ call' = [fn |-> "getCompleteFlowGasFees",
                       args |-> [amount |-> a, feeTier |-> feeTier]]
           /\ outcome' \in getCompleteFlowGasFees(a, feeTier)
           /\ UNCHANGED <<classifierVars, estimateVars, pageVars>>

CallCalculateRiskAnalysis ==
    /\ call = NoCall
    /\ \E d \in RiskInputs :
           /\ call' = [fn |-> "calculateRiskAnalysis", args |-> d]
           /\ outcome' = Returned(calculateRiskAnalysis(d), 0)
           /\ UNCHANGED <<classifierVars, estimateVars, pageVars>>

CallFallbackTimingRisk ==
    /\ call = NoCall
    /\ \E input \in TimingRiskInputs :
           /\ call' = [fn |-> "fallbackTimingRisk", args |-> input]
           /\ outcome' = Returned(fallbackTimingRisk(input), 0)
           /\ UNCHANGED <<classifierVars, estimateVars, pageVars>>

CallGetGasPrice ==
    /\ call = NoCall
    /\ \E chain \in Chains, feeData \in FeeData :
           /\ call' = [fn |-> "getGasPrice",
                       args |-> [chain |-> normalizedChain(chain),
                                 feeData |-> feeData]]
           /\ outcome' = getGasPrice(chain, feeData)
           /\ UNCHANGED <<classifierVars, estimateVars, pageVars>>

UtilityNext ==
    \/ CallCalculateGasCost
    \/ CallCalculateSwapFees
    \/ CallCalculateSlippageCost
    \/ CallGetMevFees
    \/ CallGetBridgingFees
    \/ CallBridgeSlippage
    \/ CallAmmSlippageETHtoUSDC
    \/ CallGetArbitrumSwapGasFees
    \/ CallGetCompleteFlowGasFees
    \/ CallCalculateRiskAnalysis
    \/ CallFallbackTimingRisk
    \/ CallGetGasPrice

(***************************************************************************)
(* Part 4: the simulation page                                             *)
(*                                                                         *)
(* The page is re-rendered after every state change, so each handler reads *)
(* the current state.  The two price fields are not kept: what they do to  *)
(* the request is part of what the server may answer.                      *)
(***************************************************************************)

\* Largest number of executeArb calls followed.
MaxTransactions == 2

\* What the amount field may hold: "", "0", "0.01", "0.05".
PageAmounts == {JEmpty, JText(TRUE, 0), JText(TRUE, 1), JText(TRUE, 5)}

\* useState<any>(null)
NoPageResult ==
    [present |-> FALSE, success |-> "absent", shouldExecute |-> FALSE,
     amountInEth |-> NaN, error |-> "none"]

\* The body of a 200 answer of POST: { success: true, simulation }.
SimulationResult(amount, shouldExecute) ==
    [present |-> TRUE, success |-> "true", shouldExecute |-> shouldExecute,
     amountInEth |-> parseFloat(amount), error |-> "none"]

\* The body of a 400 answer, { error }, and of a 500 answer,
\* { success: false, error }.
ErrorResult(success, error) ==
    [present |-> TRUE, success |-> success, shouldExecute |-> FALSE,
     amountInEth |-> NaN, error |-> error]

\* What `await response.json()` may deliver for a posted amount: the 400
\* answer of the first validation that fails, the 500 answer of a failed
\* cost function, or a simulation.
ServerAnswers(amount) ==
    IF IsFalsy(amount) \/ isNaN(parseFloat(amount))
       \/ JsLE(parseFloat(amount), Num(0))
    THEN {ErrorResult("absent", InvalidAmount)}
    ELSE {ErrorResult("absent",
                      "Invalid buy price: must be a positive number"),
          ErrorResult("absent",
                      "Invalid sell price: must be a positive number")}
         \cup {ErrorResult("false", FetchError(c)) : c \in Costs \ {"mev"}}
         \cup {SimulationResult(amount, e) : e \in BOOLEAN}

\* parseEther(amount), in hundredths of an ETH; it throws on a text that
\* is not a decimal number.
parseEther(a) == IF a.k = "string" /\ a.numeric THEN Num(a.n) ELSE NaN

\* Mutant: the wallet connection is not checked.
executionRefusalWithoutWallet(connected, r) ==
    IF ~r.present \/ r.success # "true" \/ ~r.shouldExecute
    THEN "Cannot execute unprofitable trade"
    ELSE ""

\* The two early returns of handleExecuteArbitrage: the error message set,
\* "" when the handler goes on.
executionRefusal(connected, r) ==
    IF ~connected
    THEN "Please connect your wallet"
    ELSE IF ~r.present \/ r.success # "true" \/ ~r.shouldExecute
    THEN "Cannot execute unprofitable trade"
    ELSE ""

PageIdle ==
    /\ amountField = JText(TRUE, 1)
    /\ isConnected = FALSE
    /\ simulating = FALSE
    /\ posted = JAbsent
    /\ pageResult = NoPageResult
    /\ executionStatus = ""
    /\ executionError = ""
    /\ isExecuting = FALSE
    /\ transactions = <<>>

\* onChange of the amount field
SetAmount ==
    /\ \E v \in PageAmounts : amountField' = v
    /\ UNCHANGED <<isConnected, simulating, posted, pageResult,
                   executionStatus, executionError, isExecuting,
                   transactions>>
    /\ UNCHANGED <<classifierVars, estimateVars, utilityVars>>

\* The wallet connects or disconnects (useAccount).
WalletChanges ==
    /\ isConnected' = ~isConnected
    /\ UNCHANGED <<amountField, simulating, posted, pageResult,
                   executionStatus, executionError, isExecuting,
                   transactions>>
    /\ UNCHANGED <<classifierVars, estimateVars, utilityVars>>

\* runSimulation up to its await; the button is disabled while simulating.
RunSimulation ==
    /\ ~simulating
    /\ simulating' = TRUE
    /\ pageResult' = NoPageResult
    /\ executionStatus' = ""
    /\ executionError' = ""
    /\ posted' = amountField
    /\ UNCHANGED <<amountField, isConnected, isExecuting, transactions>>
    /\ UNCHANGED <<classifierVars, estimateVars, utilityVars>>

\* The request is answered and the body is stored.
SimulationAnswered ==
    /\ simulating
    /\ \E answer \in ServerAnswers(posted) : pageResult' = answer
    /\ simulating' = FALSE
    /\ UNCHANGED <<amountField, isConnected, posted, executionStatus,
                   executionError, isExecuting, transactions>>
    /\ UNCHANGED <<classifierVars, estimateVars, utilityVars>>

\* fetch or response.json() throws: the catch block stores a failure.
SimulationFailed ==
    /\ simulating
    /\ pageResult' = ErrorResult("false", "Failed to run simulation")
    /\ simulating' = FALSE
    /\ UNCHANGED <<amountField, isConnected, posted, executionStatus,
                   executionError, isExecuting, transactions>>
    /\ UNCHANGED <<classifierVars, estimateVars, utilityVars>>

\* handleExecuteArbitrage up to its await.
HandleExecuteArbitrage ==
    /\ ~isExecuting
    /\ Len(transactions) < MaxTransactions
    /\ IF executionRefusal(isConnected, pageResult) # ""
       THEN /\ executionError' = executionRefusal(isConnected, pageResult)
            /\ UNCHANGED <<executionStatus, isExecuting, transactions>>
       ELSE IF isNaN(parseEther(amountField))
       THEN /\ executionError' = "invalid decimal number"
            /\ executionStatus' = ""
            /\ UNCHANGED <<isExecuting, transactions>>
       ELSE /\ executionError' = ""
            /\ executionStatus' = "Waiting for wallet confirmation..."
            /\ isExecuting' = TRUE
            /\ transactions' =
                  Append(transactions,
                         [functionName |-> "executeArb",
                          amountInWei |-> parseEther(amountField)])
    /\ UNCHANGED <<amountField, isConnected, simulating, posted, pageResult>>
    /\ UNCHANGED <<classifierVars, estimateVars, utilityVars>>

\* writeContractAsync resolves.
TransactionConfirmed ==
    /\ isExecuting
    /\ isExecuting' = FALSE
    /\ executionStatus' = "Arbitrage executed successfully!"
    /\ UNCHANGED <<amountField, isConnected, simulating, posted, pageResult,
                   executionError, transactions>>
    /\ UNCHANGED <<classifierVars, estimateVars, utilityVars>>

\* writeContractAsync rejects: the user declined or the call reverted.
TransactionRejected ==
    /\ isExecuting
    /\ isExecuting' = FALSE
    /\ executionError' = "Failed to execute arbitrage"
    /\ executionStatus' = ""
    /\ UNCHANGED <<amountField, isConnected, simulating, posted, pageResult,
                   transactions>>
    /\ UNCHANGED <<classifierVars, estimateVars, utilityVars>>

PageNext ==
    \/ SetAmount
    \/ WalletChanges
    \/ RunSimulation
    \/ SimulationAnswered
    \/ SimulationFailed
    \/ HandleExecuteArbitrage
    \/ TransactionConfirmed
    \/ TransactionRejected

\* No estimate request is being served.
EstimateIdle ==
    /\ body = MalformedBody
    /\ phase = "IDLE"
    /\ fetches = [c \in Costs |-> "idle"]
    /\ fetched = [c \in Costs |-> JAbsent]
    /\ reply = NoReply
    /\ classifierCalls = 0

\* No risk-classifier request is being served.
ClassifierIdle ==
    /\ data = CHOOSE d \in SimulationData : TRUE
    /\ apiKey = FALSE
    /\ serviceMode = "silent"
    /\ state = "IDLE"
    /\ response = NoResponse
    /\ result = NoResult
    /\ aiCalls = 0
    /\ fallbackCalls = 0

EstimateInit ==
    /\ ClassifierIdle
    /\ UtilityIdle
    /\ PageIdle
    /\ body \in Bodies
    /\ phase = "RECEIVED"
    /\ fetches = [c \in Costs |-> "idle"]
    /\ fetched = [c \in Costs |-> JAbsent]
    /\ reply = NoReply
    /\ classifierCalls = 0

\* POST up to its first await: the body is read and validated, and the
\* five cost functions are called for a valid body.
ReceiveRequest ==
    /\ phase = "RECEIVED"
    /\ IF ~body.json
       THEN /\ reply' = ServerError("Unexpected token in JSON")
            /\ phase' = "RESPONDED"
            /\ UNCHANGED fetches
       ELSE IF ValidationError(body) # "none"
       THEN /\ reply' = BadRequest(ValidationError(body))
            /\ phase' = "RESPONDED"
            /\ fetches' = StartFetches(FALSE)
       ELSE /\ phase' = "FETCHING"
            /\ fetches' = StartFetches(TRUE)
            /\ UNCHANGED reply
    /\ UNCHANGED <<body, fetched, classifierCalls, classifierVars, utilityVars, pageVars>>

\* One cost promise is fulfilled with its result.
FetchFulfils ==
    /\ phase = "FETCHING"
    /\ \E c \in Costs :
          /\ fetches[c] = "pending"
          /\ \E v \in Deliverable(c, body.amount) :
                fetched' = [fetched EXCEPT ![c] = v]
          /\ fetches' = [fetches EXCEPT ![c] = "fulfilled"]
    /\ UNCHANGED <<body, phase, reply, classifierCalls, classifierVars, utilityVars, pageVars>>

\* One cost promise is rejected: its service failed.  getMevFees calls no
\* service and accepts every amount that POST accepted.
FetchRejects ==
    /\ phase = "FETCHING"
    /\ \E c \in Costs \ {"mev"} :
          /\ fetches[c] = "pending"
          /\ fetches' = [fetches EXCEPT ![c] = "rejected"]
    /\ UNCHANGED <<body, phase, fetched, reply, classifierCalls,
                   classifierVars, utilityVars, pageVars>>

\* The join is fulfilled: the figures are computed and returned.
RespondWithSimulation ==
    /\ phase = "FETCHING"
    /\ PromiseAll(fetches) = "fulfilled"
    /\ reply' = Success(Simulation(body, fetched))
    /\ phase' = "RESPONDED"
    /\ UNCHANGED <<body, fetches, fetched, classifierCalls, classifierVars, utilityVars, pageVars>>

\* The join is rejected: the catch block answers with the error.
RespondWithError ==
    /\ phase = "FETCHING"
    /\ PromiseAll(fetches) = "rejected"
    /\ \E c \in Costs :
          /\ fetches[c] = "rejected"
          /\ reply' = ServerError(FetchError(c))
    /\ phase' = "RESPONDED"
    /\ UNCHANGED <<body, fetches, fetched, classifierCalls, classifierVars, utilityVars, pageVars>>

EstimateNext ==
    \/ ReceiveRequest
    \/ FetchFulfils
    \/ FetchRejects
    \/ RespondWithSimulation
    \/ RespondWithError

EstimateSpec == EstimateInit /\ [][EstimateNext]_vars

UtilityInit ==
    /\ ClassifierIdle
    /\ EstimateIdle
    /\ UtilityIdle
    /\ PageIdle

UtilitySpec == UtilityInit /\ [][UtilityNext]_vars

PageInit ==
    /\ ClassifierIdle
    /\ EstimateIdle
    /\ UtilityIdle
    /\ PageIdle

PageSpec == PageInit /\ [][PageNext]_vars

Init ==
    /\ data \in SimulationData
    /\ apiKey \in BOOLEAN
    /\ serviceMode \in {"answers", "throws", "silent"}
    /\ state = "PENDING"
    /\ response = NoResponse
    /\ result = NoResult
    /\ aiCalls = 0
    /\ fallbackCalls = 0
    /\ EstimateIdle
    /\ UtilityIdle
    /\ PageIdle

\* Entry: without a credential the request is routed to the fallback.
NoCredential ==
    /\ state = "PENDING"
    /\ ~apiKey
    /\ state' = "AI_FAILED"
    /\ UNCHANGED <<data, apiKey, serviceMode, response, result, aiCalls,
                   fallbackCalls,
                   estimateVars, utilityVars, pageVars>>

\* Entry: with a credential the prompt is built and generateContent is
\* called; the request waits for the promise to settle.
CallService ==
       /\ state = "PENDING"
       /\ apiKey
       /\ state' = "AI_ATTEMPTED"
       /\ aiCalls' = aiCalls + 1
       /\ UNCHANGED <<data, apiKey, serviceMode, response, result,
                      fallbackCalls,
                      estimateVars, utilityVars, pageVars>>

\* The promise resolves with a response text, which is matched, parsed and
\* validated.
ServiceAnswers ==
    /\ state = "AI_ATTEMPTED"
    /\ serviceMode = "answers"
    /\ \E r \in ResponseTexts :
          /\ response' = r
          /\ state' = ValidateResponse(r)
    /\ UNCHANGED <<data, apiKey, serviceMode, result, aiCalls,
                   fallbackCalls,
                   estimateVars, utilityVars, pageVars>>

\* The promise rejects (network error, quota, blocked prompt).
ServiceThrows ==
    /\ state = "AI_ATTEMPTED"
    /\ serviceMode = "throws"
    /\ state' = CatchError("ServiceError")
    /\ UNCHANGED <<data, apiKey, serviceMode, response, result, aiCalls,
                   fallbackCalls,
                   estimateVars, utilityVars, pageVars>>

\* return getFallbackDecision(data): the call is evaluated
ApplyFallback ==
    /\ state = "AI_FAILED"
    /\ result' = getFallbackDecision(data)
    /\ fallbackCalls' = fallbackCalls + 1
    /\ state' = "FALLBACK_APPLIED"
    /\ UNCHANGED <<data, apiKey, serviceMode, response, aiCalls,
                   estimateVars, utilityVars, pageVars>>

\* return getFallbackDecision(data): the request resolves with its value
ReturnFallback ==
    /\ state = "FALLBACK_APPLIED"
    /\ state' = "DECIDED"
    /\ UNCHANGED <<data, apiKey, serviceMode, response, result, aiCalls,
                   fallbackCalls,
                   estimateVars, utilityVars, pageVars>>

\* The request resolves with the validated AI response.
ReturnAI ==
    /\ state = "AI_SUCCEEDED"
    /\ result' = AIResult(JSONparse(response).value, data)
    /\ state' = "DECIDED"
    /\ UNCHANGED <<data, apiKey, serviceMode, response, aiCalls,
                   fallbackCalls,
                   estimateVars, utilityVars, pageVars>>

Next ==
    \/ NoCredential
    \/ CallService
    \/ ServiceAnswers
    \/ ServiceThrows
    \/ ApplyFallback
    \/ ReturnFallback
    \/ ReturnAI

Spec == Init /\ [][Next]_vars

\* Every step of the request itself is taken when it is enabled, and a
\* service in mode "answers" or "throws" settles the call.  A silent
\* service has no step at all, and the code sets no timer.
FairSpec == Spec /\ WF_vars(Next)

(***************************************************************************)
(* Properties of getAIDecision                                             *)
(***************************************************************************)

\* The request resolved through the deterministic fallback.
ViaFallback == state = "DECIDED" /\ fallbackCalls = 1

\* The request resolved with the validated AI response.
ViaAI == state = "DECIDED" /\ fallbackCalls = 0

\* C1: whenever the net profit is zero or negative, the decision the
\* request resolves with is SKIP, on the fallback path and on the AI path.
C1_NonPositiveProfitSkips ==
    (state = "DECIDED" /\ data.netProfitUsd <= 0) => result.decision = "SKIP"

\* The AI path was abandoned for one of the listed reasons: no credential,
\* a rejected call, a response without a JSON span, a span that does not
\* parse, or a decision field other than EXECUTE and SKIP.
AIFailure ==
    \/ ~apiKey
    \/ /\ state \notin {"PENDING", "AI_ATTEMPTED"}
       /\ \/ serviceMode = "throws"
          \/ response.shape \in {"no_braces", "malformed"}
          \/ response.shape = "json" /\ response.obj.decision \notin Decisions

\* C2: the request never ends in a rejection, and after any failure of the
\* AI path it resolves with exactly getFallbackDecision(data).
C2_FailuresResolveWithFallback ==
    /\ state \in States
    /\ (state = "DECIDED" /\ AIFailure) => result = getFallbackDecision(data)

C2_Witness ==
    /\ state = "DECIDED"
    /\ apiKey
    /\ response.shape = "json"
    /\ response.obj.decision = "HOLD"
    /\ response.obj.riskAnalysis.present
    /\ result.decision = "EXECUTE"

\* C3: a request whose call to the reasoning service is never answered
\* still resolves, with the decision of the deterministic fallback.
C3_SilentServiceStillDecides ==
    (state = "AI_ATTEMPTED" /\ serviceMode = "silent")
        ~> (state = "DECIDED" /\ result = getFallbackDecision(data))

Rank(s) ==
    CASE s = "PENDING" -> 0
      [] s = "AI_ATTEMPTED" -> 1
      [] s \in {"AI_SUCCEEDED", "AI_FAILED"} -> 2
      [] s = "FALLBACK_APPLIED" -> 3
      [] s = "DECIDED" -> 4
      [] OTHER -> 5

\* C4: the request states only advance, the fallback is entered only from
\* a failure, the service is called at most once and only from PENDING, the
\* fallback is evaluated at most once, and nothing changes once DECIDED.
C4_StatesOnlyAdvance ==
    [][/\ Rank(state') > Rank(state)
       /\ state \in States /\ state' \in States
       /\ state' = "AI_SUCCEEDED" => state = "AI_ATTEMPTED"
       /\ state' = "FALLBACK_APPLIED" => state = "AI_FAILED"
       /\ state' = "DECIDED" => state \in {"AI_SUCCEEDED", "FALLBACK_APPLIED"}
       /\ aiCalls' <= 1
       /\ aiCalls' # aiCalls => state = "PENDING"
       /\ fallbackCalls' <= 1
       /\ fallbackCalls' # fallbackCalls => state = "AI_FAILED"
       /\ state # "DECIDED"]_vars

C4_Witness ==
    /\ state = "DECIDED"
    /\ serviceMode = "throws"
    /\ aiCalls = 1
    /\ fallbackCalls = 1

\* An AI response whose riskAnalysis holds a rating outside its enumeration.
RatingOutOfEnumeration ==
    /\ response.shape = "json"
    /\ response.obj.decision \in Decisions
    /\ response.obj.riskAnalysis.present
    /\ \/ response.obj.riskAnalysis.value.gasRisk \notin RiskLevels
       \/ response.obj.riskAnalysis.value.slippageRisk \notin RiskLevels
       \/ response.obj.riskAnalysis.value.mevRisk \notin RiskLevels
       \/ response.obj.riskAnalysis.value.profitMargin \notin ProfitMargins

\* C5: a response with a rating outside its enumeration is answered with
\* the fallback's assessment, and every rating of a returned assessment is
\* a member of its enumeration.
C5_RatingsWithinEnumeration ==
    state = "DECIDED" =>
        /\ RatingOutOfEnumeration => result = getFallbackDecision(data)
        /\ result.riskAnalysis.gasRisk \in RiskLevels
        /\ result.riskAnalysis.slippageRisk \in RiskLevels
        /\ result.riskAnalysis.mevRisk \in RiskLevels
        /\ result.riskAnalysis.profitMargin \in ProfitMargins

\* C6: the confidence of every returned assessment is a number between 0
\* and 1.
C6_ConfidenceWithinUnitInterval ==
    state = "DECIDED" =>
        /\ result.confidence.t = "number"
        /\ result.confidence.v >= 0
        /\ result.confidence.v <= 100

\* C7: a structurally valid response without riskAnalysis is not a failure:
\* the request resolves with the AI's decision, without evaluating the
\* fallback, and with the ratings of calculateRiskAnalysis(data).
C7_AbsentRiskAnalysisIsSynthesized ==
    (/\ state = "DECIDED"
     /\ response.shape = "json"
     /\ response.obj.decision \in Decisions
     /\ ~response.obj.riskAnalysis.present)
    => /\ fallbackCalls = 0
       /\ result.decision = response.obj.decision
       /\ result.riskAnalysis = calculateRiskAnalysis(data)

C7_Witness ==
    /\ ViaAI
    /\ ~response.obj.riskAnalysis.present
    /\ result.decision = "EXECUTE"
    /\ getFallbackDecision(data).decision = "SKIP"
    /\ result.riskAnalysis.gasRisk = "high"

(***************************************************************************)
(* Properties of getFallbackDecision                                       *)
(***************************************************************************)

\* The condition of rule k of the decision rules, k in 1..6.
RuleHolds(k, d) ==
    CASE k = 1 -> d.netProfitUsd <= 0
      [] k = 2 -> calculateRiskAnalysis(d).gasRisk = "high"
      [] k = 3 -> /\ calculateRiskAnalysis(d).profitMargin = "thin"
                  /\ \/ calculateRiskAnalysis(d).slippageRisk = "high"
                     \/ calculateRiskAnalysis(d).mevRisk = "high"
      [] k = 4 -> d.netProfitUsd < 200
      [] k = 5 -> d.spread > 500
      [] k = 6 -> d.liquidityDepth = "low" /\ d.amountInEth > 5

\* The lowest-numbered rule whose condition holds, 7 if none does.
FirstRule(d) ==
    IF \E k \in 1..6 : RuleHolds(k, d)
    THEN CHOOSE k \in 1..6 :
            RuleHolds(k, d) /\ \A j \in 1..(k - 1) : ~RuleHolds(j, d)
    ELSE 7

ReasonOfRule(k) ==
    CASE k = 1 -> ReasonRule1
      [] k = 2 -> ReasonRule2
      [] k = 3 -> ReasonRule3
      [] k = 4 -> ReasonRule4
      [] k = 5 -> ReasonRule5
      [] k = 6 -> ReasonRule6
      [] k = 7 -> ReasonExecute

\* C8: the fallback answers with the first rule that matches: SKIP with
\* that rule's reason for rules 1 to 6, EXECUTE with confidence 0.90 for a
\* safe margin and 0.75 otherwise when no rule matches; a profit between 0
\* and 2 with gas at most half the gross profit and high liquidity is
\* skipped by rule 4.
C8_FirstMatchingRuleWins ==
    ViaFallback =>
        /\ result.reason = ReasonOfRule(FirstRule(data))
        /\ result.decision = IF FirstRule(data) = 7 THEN "EXECUTE" ELSE "SKIP"
        /\ FirstRule(data) = 7 =>
              result.confidence =
                 IF calculateRiskAnalysis(data).profitMargin = "safe"
                 THEN Num(90) ELSE Num(75)
        /\ (/\ data.netProfitUsd > 0
            /\ data.netProfitUsd < 200
            /\ ~RatioGT(gasCostRatio(data), 5, 10)
            /\ data.liquidityDepth = "high")
           => result.reason = ReasonRule4

C8_Witness ==
    /\ ViaFallback
    /\ data.netProfitUsd = 150
    /\ data.gasCostUsd = 100
    /\ grossProfit(data) = 500
    /\ data.liquidityDepth = "high"
    /\ result.decision = "SKIP"
    /\ result.reason = ReasonRule4

\* C9: at a net profit of exactly 2.00 the margin is acceptable, neither
\* rule 3 nor rule 4 answers, and the decision is EXECUTE when gas risk is
\* not high, the spread is at most 5 and rule 6 does not hold.
C9_TwoDollarsIsNotBelowThreshold ==
    (ViaFallback /\ data.netProfitUsd = 200) =>
        /\ result.riskAnalysis.profitMargin = "acceptable"
        /\ result.reason \notin {ReasonRule3, ReasonRule4}
        /\ (/\ result.riskAnalysis.gasRisk # "high"
            /\ data.spread <= 500
            /\ ~(data.liquidityDepth = "low" /\ data.amountInEth > 5))
           => result.decision = "EXECUTE"

C9_Witness ==
    /\ ViaFallback
    /\ data.netProfitUsd = 200
    /\ data.spread = 500
    /\ data.liquidityDepth = "low"
    /\ data.amountInEth = 5
    /\ data.slippageUsd = 250
    /\ result.decision = "EXECUTE"
    /\ result.confidence = Num(75)

\* C10: with low liquidity and more than 0.05 ETH the fallback decision is
\* SKIP.
C10_LowLiquidityLargeTradeSkips ==
    (/\ ViaFallback
     /\ data.liquidityDepth = "low"
     /\ data.amountInEth > 5)
    => result.decision = "SKIP"

C10_Witness ==
    /\ ViaFallback
    /\ data.liquidityDepth = "low"
    /\ data.amountInEth = 100
    /\ data.spread = 20
    /\ grossProfit(data) = 600
    /\ result.reason = ReasonRule6

(***************************************************************************)
(* Properties of the estimate endpoint                                     *)
(***************************************************************************)

\* POST answered with success: true.
Succeeded == phase = "RESPONDED" /\ reply.success = "true"

\* The four cost figures of a successful response are all numbers.
FiguresAreNumbers ==
    /\ ~isNaN(reply.simulation.gasCostUsd)
    /\ ~isNaN(reply.simulation.slippageUsd)
    /\ ~isNaN(reply.simulation.feesUsd)
    /\ ~isNaN(reply.simulation.bridgingFeesUsd)

\* C11: a successful estimate carries a risk assessment next to the profit
\* summary: the risk classifier was called exactly once for it, and it is
\* not called for a request that failed.
C11_SuccessCarriesRiskAssessment ==
    /\ Succeeded =>
          /\ classifierCalls = 1
          /\ {"decision", "reason", "confidence", "riskAnalysis"}
                \subseteq reply.simulation.keys
    /\ (phase = "RESPONDED" /\ reply.success # "true") => classifierCalls = 0

\* C12: when one of the cost fetches failed, the response is success:false
\* with status 500 and carries no simulation.
C12_FailedFetchFailsEstimate ==
    (phase = "RESPONDED" /\ \E c \in Costs : fetches[c] = "rejected")
    => /\ reply.status = 500
       /\ reply.success = "false"
       /\ reply.error # "none"
       /\ reply.simulation = NoSimulation

C12_Witness ==
    /\ phase = "RESPONDED"
    /\ fetches["bridgeSlippage"] = "rejected"
    /\ \A c \in Costs \ {"bridgeSlippage"} : fetches[c] = "fulfilled"
    /\ reply.status = 500
    /\ reply.error = FetchError("bridgeSlippage")

\* C13: the five fetches are all under way while POST waits, and profit
\* figures exist only once all five have been fulfilled.
C13_ProfitOnlyAfterJoin ==
    /\ phase = "FETCHING" => \A c \in Costs : fetches[c] # "idle"
    /\ reply.simulation # NoSimulation =>
          \A c \in Costs : fetches[c] = "fulfilled"

C13_Witness ==
    /\ Succeeded
    /\ \A c \in Costs : fetches[c] = "fulfilled"
    /\ ~isNaN(reply.simulation.netProfitUsd)

\* C14: every cost figure of a successful response was supplied by its
\* source; a result without its figure makes the request fail.
C14_MissingCostFailsRequest ==
    Succeeded => \A c \in Costs : fetched[c].k # "absent"

\* A body field that is missing, not a number, or not positive.
FieldInvalid(j) ==
    \/ j.k \in {"absent", "null", "empty", "prefixed"}
    \/ j.k = "string" /\ ~j.numeric
    \/ j.k \in {"number", "string"} /\ j.n <= 0

\* C15: a request with an invalid amount, buy price or sell price is
\* answered with status 400 and the body {success: false, error} whose
\* message names the first offending field.
C15_InvalidInputIs400WithSuccessFalse ==
    (/\ phase = "RESPONDED"
     /\ body.json
     /\ \/ FieldInvalid(body.amount)
        \/ FieldInvalid(body.buyPrice)
        \/ FieldInvalid(body.sellPrice))
    => /\ reply.status = 400
       /\ reply.success = "false"
       /\ reply.error =
             IF FieldInvalid(body.amount)
             THEN "Invalid amount: must be a positive number"
             ELSE IF FieldInvalid(body.buyPrice)
             THEN "Invalid buy price: must be a positive number"
             ELSE "Invalid sell price: must be a positive number"

\* C16: a request rejected by validation has called none of the five cost
\* functions.
C16_ValidationPrecedesCosts ==
    reply.status = 400 => \A c \in Costs : fetches[c] = "idle"

C16_Witness ==
    /\ phase = "RESPONDED"
    /\ reply.status = 400
    /\ reply.error = "Invalid sell price: must be a positive number"
    /\ ~FieldInvalid(body.amount)
    /\ ~FieldInvalid(body.buyPrice)

\* Two ratios <<n, d>> with positive denominators are equal.
SameRatio(r, q) == r[1] * q[2] = q[1] * r[2]

\* C17: the spread of a successful estimate is not negative and does not
\* depend on the order of the two prices, and neither does calculateSpread.
C17_SpreadIsSymmetric ==
    Succeeded =>
        LET buy == reply.simulation.buyPrice.v
            sell == reply.simulation.sellPrice.v
        IN /\ reply.simulation.spreadPercent[1] >= 0
           /\ SameRatio(reply.simulation.spreadPercent,
                        spreadPercent(sell, buy))
           /\ calculateSpread(buy, sell)[1] >= 0
           /\ SameRatio(calculateSpread(buy, sell),
                        calculateSpread(sell, buy))

\* C18: in a successful estimate gross profit is amount * (sell - buy),
\* total costs are gas + fees + slippage + bridging fees and net profit is
\* gross profit minus total costs; when a figure is not a number, neither
\* is the total.
C18_NetIsGrossMinusCosts ==
    Succeeded =>
        LET sim == reply.simulation IN
        /\ sim.grossProfitUsd =
              Num(parseFloat(body.amount).v
                  * (parseFloat(body.sellPrice).v
                     - parseFloat(body.buyPrice).v))
        /\ FiguresAreNumbers =>
              /\ sim.totalCostsUsd =
                    Num(sim.gasCostUsd.v + sim.feesUsd.v + sim.slippageUsd.v
                        + sim.bridgingFeesUsd.v)
              /\ sim.netProfitUsd =
                    Num(sim.grossProfitUsd.v - sim.totalCostsUsd.v)
        /\ ~FiguresAreNumbers =>
              isNaN(sim.totalCostsUsd) /\ isNaN(sim.netProfitUsd)

C18_Witness ==
    /\ Succeeded
    /\ FiguresAreNumbers
    /\ reply.simulation.bridgingFeesUsd.v > 0
    /\ reply.simulation.slippageUsd.v > 0
    /\ reply.simulation.netProfitUsd.v < 0

\* C19: total costs are the sum of gas, swap fee (both legs), slippage,
\* bridging fees and MEV protection.
C19_TotalHasAllFiveComponents ==
    (Succeeded /\ FiguresAreNumbers) =>
        LET sim == reply.simulation IN
        sim.totalCostsUsd =
            Num(sim.gasCostUsd.v
                + calculateSwapFees(sim.amountInEth.v, 3000, sim.buyPrice.v)
                + sim.slippageUsd.v
                + sim.bridgingFeesUsd.v
                + totalMevCostUsd(sim.amountInEth.v))

\* C20: shouldExecute is true exactly when net profit is above zero.
C20_ShouldExecuteIffPositive ==
    Succeeded =>
        /\ reply.simulation.shouldExecute
              <=> (/\ ~isNaN(reply.simulation.netProfitUsd)
                   /\ reply.simulation.netProfitUsd.v > 0)
        /\ reply.simulation.netProfitUsd = Num(0)
              => ~reply.simulation.shouldExecute

C20_Witness ==
    /\ Succeeded
    /\ reply.simulation.grossProfitUsd = Num(100)
    /\ reply.simulation.netProfitUsd = Num(0)
    /\ ~reply.simulation.shouldExecute

(***************************************************************************)
(* Properties of the cost functions, the fee utilities and the page        *)
(***************************************************************************)

CostFunctions ==
    {"calculateGasCost", "calculateSwapFees", "calculateSlippageCost",
     "getArbitrumSwapGasFees", "getCompleteFlowGasFees",
     "ammSlippageETHtoUSDC"}

\* An amount that is a number and not positive.
NonPositive(j) == j.k \in {"number", "string"} /\ j.numeric /\ j.n <= 0

\* The call was made with a non-positive amount or price, or with a fee
\* tier outside {500, 3000, 10000}.
InvalidArguments ==
    CASE call.fn = "calculateGasCost" ->
            \/ call.args.gasPrice <= 0
            \/ call.args.gasUnits <= 0
            \/ call.args.ethPriceUsd <= 0
      [] call.fn = "calculateSwapFees" ->
            \/ call.args.amountInEth <= 0
            \/ call.args.ethPriceUsd <= 0
            \/ call.args.feeBps \notin {500, 3000, 10000}
      [] call.fn = "calculateSlippageCost" ->
            \/ call.args.amountInEth <= 0
            \/ call.args.spotPrice <= 0
            \/ call.args.executionPrice <= 0
      [] call.fn \in {"getArbitrumSwapGasFees", "getCompleteFlowGasFees",
                      "ammSlippageETHtoUSDC"} ->
            \/ NonPositive(call.args.amount)
            \/ call.args.feeTier \notin {500, 3000, 10000}
      [] OTHER -> FALSE

\* C22: a cost function called with a non-positive amount or price, or
\* with a fee tier outside {500, 3000, 10000}, fails with an error and
\* computes no cost.
C22_InvalidInputFails ==
    (call.fn \in CostFunctions /\ InvalidArguments)
    => outcome.kind = "threw" /\ outcome.services = 0

\* The amount getMevFees was called with is a number.
MevCallReturned ==
    /\ call.fn = "getMevFees"
    /\ outcome.kind = "returned"
    /\ ~isNaN(parseFloat(call.args.amount))

\* C23: the MEV cost does not decrease when the amount grows; the priority
\* fee is 2 gwei plus 10 gwei per ETH below 0.3 ETH and 5 gwei (0.0005 ETH
\* at 100000 gas) from 0.3 ETH on; the builder tip is 0.03% of the amount.
C23_MevCostIsMonotone ==
    MevCallReturned =>
        LET a == parseFloat(call.args.amount).v
            v == outcome.value
        IN /\ \A b \in 1..a :
                 \A smaller \in getMevFees(JText(TRUE, b)) :
                    /\ smaller.value.totalMevCostEth.v
                          <= v.totalMevCostEth.v
                    /\ smaller.value.totalMevCostUsd.v
                          <= v.totalMevCostUsd.v
           /\ a >= 30 => v.priorityFeeEth.v = 500
           /\ a < 30 => v.priorityFeeEth.v = 200 + 10 * a
           /\ v.builderTipEth.v * 10000 = 3 * (a * 10000)
           /\ v.totalMevCostEth.v = v.priorityFeeEth.v + v.builderTipEth.v

C23_Witness ==
    /\ MevCallReturned
    /\ parseFloat(call.args.amount).v > 30
    /\ outcome.value.priorityFeeEth = Num(500)

\* n / d > a / b as JavaScript evaluates it, for b > 0: a division by zero
\* gives Infinity for n > 0 and a value that is not above anything else.
QuotientGT(n, d, a, b) ==
    IF d > 0 THEN n * b > a * d
    ELSE IF d < 0 THEN n * b < a * d
    ELSE n > 0

\* The 4.3a table; with `guarded` the two ratios count as 1 when the
\* gross profit is not positive.
Table43a(d, guarded) ==
    LET gross == d.netProfitUsd + d.gasCostUsd + d.slippageUsd + d.feesUsd
        Above(n, a, b) ==
            IF guarded /\ gross <= 0 THEN TRUE
            ELSE QuotientGT(n, gross, a, b)
    IN [gasRisk |->
           IF Above(d.gasCostUsd, 1, 2) THEN "high"
           ELSE IF Above(d.gasCostUsd, 3, 10) THEN "medium"
           ELSE "low",
        slippageRisk |->
           IF d.liquidityDepth = "low" /\ d.slippageUsd > 100 THEN "high"
           ELSE IF Above(d.slippageUsd, 1, 4) THEN "medium"
           ELSE "low",
        mevRisk |->
           IF d.amountInEth > 10 /\ d.liquidityDepth = "low" THEN "high"
           ELSE IF d.slippageUsd > 200 /\ d.netProfitUsd < 1000
           THEN "medium"
           ELSE "low",
        profitMargin |->
           IF d.netProfitUsd < 200 THEN "thin"
           ELSE IF d.netProfitUsd <= 1000 THEN "acceptable"
           ELSE "safe"]

RiskAnalysisReturned ==
    call.fn = "calculateRiskAnalysis" /\ outcome.kind = "returned"

\* C24 as stated: calculateRiskAnalysis agrees with the 4.3a table on every
\* input, the two ratios being gasCost / grossProfit and
\* slippage / grossProfit.
C24_RiskTableAsStated ==
    RiskAnalysisReturned => outcome.value = Table43a(call.args, FALSE)

\* C24 amended: calculateRiskAnalysis agrees with the 4.3a table, all
\* thresholds strict, where grossProfit is netProfit + gasCost + slippage
\* + fees and both ratios count as 1 when grossProfit is not positive.
C24_RiskTableWithGuardedRatios ==
    RiskAnalysisReturned => outcome.value = Table43a(call.args, TRUE)

C24_Witness ==
    /\ RiskAnalysisReturned
    /\ call.args.netProfitUsd + call.args.gasCostUsd
          + call.args.slippageUsd + call.args.feesUsd <= 0
    /\ outcome.value.gasRisk = "high"
    /\ call.args.gasCostUsd = 0

\* The timing table; with `guarded` the ratio counts as 1 when the net
\* profit is not positive.
TimingTable(input, guarded) ==
    LET Above(a, b) ==
            IF guarded /\ input.netProfitUsd <= 0 THEN TRUE
            ELSE QuotientGT(input.gasUsd, input.netProfitUsd, a, b)
    IN IF Above(1, 2) THEN "HIGH"
       ELSE IF Above(3, 10) THEN "MEDIUM"
       ELSE "LOW"

TimingRiskReturned ==
    call.fn = "fallbackTimingRisk" /\ outcome.kind = "returned"

\* C25 as stated: the timing score is HIGH if gasCost / netProfit > 0.5,
\* MEDIUM if > 0.3 and LOW otherwise, for every input.
C25_TimingScoreAsStated ==
    TimingRiskReturned =>
        outcome.value.timingRisk = TimingTable(call.args, FALSE)

\* C25 amended: the timing score is HIGH if netProfit <= 0 or
\* gasCost / netProfit > 0.5, MEDIUM if the ratio is > 0.3, LOW otherwise.
C25_TimingScoreWithGuardedRatio ==
    TimingRiskReturned =>
        /\ outcome.value.timingRisk = TimingTable(call.args, TRUE)
        /\ call.args.netProfitUsd <= 0 => outcome.value.timingRisk = "HIGH"

C25_Witness ==
    /\ TimingRiskReturned
    /\ call.args.netProfitUsd < 0
    /\ call.args.gasUsd = 0
    /\ outcome.value.timingRisk = "HIGH"

\* The fee utilities C26 names.
FeeUtilities ==
    {"getMevFees", "getBridgingFees", "bridgeSlippage",
     "getCompleteFlowGasFees", "ammSlippageETHtoUSDC"}

\* C26: a fee utility called with an amount that is not a positive number
\* throws the invalid-amount error before calling a service, and getMevFees
\* returns no result whose costs are not numbers.
C26_NonNumericAmountIsRejected ==
    /\ (call.fn \in FeeUtilities /\ FieldInvalid(call.args.amount))
       => /\ outcome.kind = "threw"
          /\ outcome.services = 0
          /\ \E c \in Costs :
                outcome.message = FetchError(c) \o ": " \o InvalidAmount
    /\ (call.fn = "getMevFees" /\ outcome.kind = "returned")
       => /\ ~isNaN(outcome.value.totalMevCostEth)
          /\ ~isNaN(outcome.value.totalMevCostUsd)

\* C27: the deterministic decision is EXECUTE exactly when netProfit >= 2,
\* gasCost / grossProfit <= 0.5, spread <= 5 and not (liquidity is low and
\* amount > 0.05); an input skipped by rule 1 or rule 3 has netProfit < 2.
C27_ExecuteIffFourConditions ==
    ViaFallback =>
        /\ result.decision = "EXECUTE"
           <=> /\ data.netProfitUsd >= 200
               /\ 2 * data.gasCostUsd
                     <= data.netProfitUsd + data.gasCostUsd
                        + data.slippageUsd + data.feesUsd
               /\ data.spread <= 500
               /\ ~(data.liquidityDepth = "low" /\ data.amountInEth > 5)
        /\ result.reason \in {ReasonRule1, ReasonRule3}
           => data.netProfitUsd < 200

C27_Witness ==
    /\ ViaFallback
    /\ result.reason = ReasonRule3
    /\ result.decision = "SKIP"
    /\ data.netProfitUsd > 0

\* The stored simulation result allows an execution.
ResultAllowsExecution ==
    /\ pageResult.present
    /\ pageResult.success = "true"
    /\ pageResult.shouldExecute

\* C28: on the simulation page a transaction executeArb is issued only when
\* the wallet is connected and the stored result has success = true and
\* shouldExecute = true; otherwise handleExecuteArbitrage sets an error and
\* issues no transaction.
C28_ExecuteOnlyWhenAllowed ==
    [][/\ transactions' # transactions
          => /\ isConnected
             /\ ResultAllowsExecution
             /\ transactions'[Len(transactions')].functionName = "executeArb"
       /\ (HandleExecuteArbitrage /\ ~(isConnected /\ ResultAllowsExecution))
          => /\ executionError' # ""
             /\ transactions' = transactions]_vars

C28_Witness ==
    /\ Len(transactions) > 0
    /\ isExecuting
    /\ isConnected
    /\ ResultAllowsExecution
    /\ executionError = ""

\* C29: the amount sent to executeArb equals amountInEth of the stored
\* simulation result, after any sequence of edits, simulations and clicks.
C29_SentAmountIsSimulatedAmount ==
    [][transactions' # transactions
          => transactions'[Len(transactions')].amountInWei
                = pageResult.amountInEth]_vars

\* C30: getGasPrice never throws and returns a positive gas price: the
\* provider's gasPrice if it is non-zero, else its maxFeePerGas if that is
\* non-zero, else 1 gwei; and 1 gwei when the provider fails.
C30_GasPriceIsPositive ==
    call.fn = "getGasPrice"
       => /\ outcome.kind = "returned"
          /\ outcome.value > 0
          /\ LET f == call.args.feeData
                 given(j) == j.k = "number" /\ j.n # 0
             IN  outcome.value =
                    CASE f.failed -> 1000000000
                      [] ~f.failed /\ given(f.gasPrice) -> f.gasPrice.n
                      [] ~f.failed /\ ~given(f.gasPrice)
                         /\ given(f.maxFeePerGas) -> f.maxFeePerGas.n
                      [] OTHER -> 1000000000

C30_Witness ==
    /\ call.fn = "getGasPrice"
    /\ ~call.args.feeData.failed
    /\ call.args.feeData.gasPrice = JNumber(0)
    /\ call.args.feeData.maxFeePerGas = JNumber(250000000)
    /\ outcome.kind = "returned"
    /\ outcome.value = 250000000

====
